---- MODULE Spec2Model ----
(***************************************************************************)
(* TSCForger (src/ForgedInvariant/TSCSyncer.cpp): the cross-core TSC       *)
(* synchroniser.  Callers (initialisation, the periodic timer, the power-  *)
(* management trace point hook, the wall-clock hook) enter syncAll, whose  *)
(* atomic operations are modelled one step each; the rendezvous runs the   *)
(* per-core action sync() on every core, one step per atomic operation.    *)
(*                                                                         *)
(* The counters are 64 bits wide in the code; the model keeps them below   *)
(* MaxTSC, far from the width, so no wrap-around is modelled.              *)
(*                                                                         *)
(* mp_rendezvous_no_intrs runs the action on every core with interrupts    *)
(* off: while a round is on the cores no calling thread takes a step.      *)
(***************************************************************************)
EXTENDS Integers, FiniteSets

\* ------------------------------------------------------------------ bounds
MaxCores == 2
MaxTSC == 2
NumCallers == 2

\* no value yet: below every counter value
NoVal == 0 - 1

VARIABLES
  systemAwake,     \* _Atomic bool systemAwake
  synchronised,    \* _Atomic bool synchronised   (spec: alignmentValid)
  synchronising,   \* _Atomic bool synchronising  (spec: syncInProgress)
  threadsEngaged,  \* _Atomic counter             (spec: enginesArrived)
  targetTSC,       \* _Atomic uint64              (spec: targetValue)
  threadCount,     \* detected by init()
  tsc,             \* MSR_TSC of every core
  corepc,          \* where every core is inside sync()
  proposed,        \* the rdtsc64() value a core handed to fetch-max this round
  written,         \* the value a core handed to wrmsr64(MSR_TSC, .) this round
  pc,              \* where every calling thread is
  timerArg,        \* the argument `timer` of the thread's syncAll call
  timerEnabled,    \* IOTimerEventSource: enable()/disable()
  timerArmed,      \* IOTimerEventSource: setTimeoutMS()/cancelTimeout()
  hooksInstalled,  \* routeMultiple succeeded
  asleep,          \* power state: between the sleep and the wake trace point
  point            \* the argument `point` of the running wrapTracePoint call

vars == <<systemAwake, synchronised, synchronising, threadsEngaged, targetTSC,
          threadCount, tsc, corepc, proposed, written, pc, timerArg,
          timerEnabled, timerArmed, hooksInstalled, asleep, point>>

flags == <<systemAwake, synchronised, synchronising>>
roundState == <<threadsEngaged, targetTSC>>
coreState == <<tsc, corepc, proposed, written>>
timerState == <<timerEnabled, timerArmed>>
envState == <<threadCount, timerArg, hooksInstalled, asleep, point>>

Threads == DOMAIN pc
Cores == DOMAIN corepc

Max(a, b) == IF a >= b THEN a ELSE b

RECURSIVE MaxOf(_)
MaxOf(S) == IF S = {} THEN 0
            ELSE LET x == CHOOSE y \in S : TRUE
                 IN Max(x, MaxOf(S \ {x}))

\* the two ways a syncAll call ends: the early return of line 92, or after a round
Ret == {"ret_early", "ret_ran"}

\* a thread between its successful exchange (line 91) and its release (line 104)
HolderPc == {"clrSync", "rstEngaged", "rstTarget", "rendezvous", "inRound", "release"}
Holders == {t \in Threads : pc[t] \in HolderPc}

\* mp_rendezvous_no_intrs is running the action on the cores
RoundActive == \E c \in Cores : corepc[c] # "idle"

\* ---------------------------------------------------------------- syncAll
\* line 89: !atomic_load(&systemAwake) -> return
ChkAwake(t) ==
  /\ pc[t] = "chkAwake"
  /\ ~RoundActive
  /\ pc' = [pc EXCEPT ![t] = IF systemAwake THEN "chkSync" ELSE "ret_early"]
  /\ UNCHANGED <<flags, roundState, coreState, timerState, envState>>

\* a faulty variant: the argument `timer` is not consulted
ChkSyncIgnoringTimer(t) ==
  /\ pc[t] = "chkSync"
  /\ ~RoundActive
  /\ pc' = [pc EXCEPT ![t] = IF synchronised THEN "ret_early" ELSE "xchg"]
  /\ UNCHANGED <<flags, roundState, coreState, timerState, envState>>

\* line 90: (!timer && atomic_load(&synchronised)) -> return
ChkSync(t) ==
  /\ pc[t] = "chkSync"
  /\ ~RoundActive
  /\ pc' = [pc EXCEPT ![t] = IF ~timerArg[t] /\ synchronised THEN "ret_early" ELSE "xchg"]
  /\ UNCHANGED <<flags, roundState, coreState, timerState, envState>>

\* a faulty variant: the gate is stored, its old value ignored
ExchangeIgnoringOld(t) ==
  /\ pc[t] = "xchg"
  /\ ~RoundActive
  /\ synchronising' = TRUE
  /\ pc' = [pc EXCEPT ![t] = "clrSync"]
  /\ UNCHANGED <<systemAwake, synchronised, roundState, coreState, timerState, envState>>

\* a faulty variant: the test of the exchanged value is inverted
ExchangeInverted(t) ==
  /\ pc[t] = "xchg"
  /\ ~RoundActive
  /\ synchronising' = TRUE
  /\ pc' = [pc EXCEPT ![t] = IF synchronising THEN "clrSync" ELSE "ret_early"]
  /\ UNCHANGED <<systemAwake, synchronised, roundState, coreState, timerState, envState>>

\* a faulty variant: a caller that finds the gate held clears it on its way out
ExchangeReleasingOnBusy(t) ==
  /\ pc[t] = "xchg"
  /\ ~RoundActive
  /\ synchronising' = ~synchronising
  /\ pc' = [pc EXCEPT ![t] = IF synchronising THEN "ret_early" ELSE "clrSync"]
  /\ UNCHANGED <<systemAwake, synchronised, roundState, coreState, timerState, envState>>

\* line 91: atomic_exchange(&synchronising, true) -> return when it was true
Exchange(t) ==
  /\ pc[t] = "xchg"
  /\ ~RoundActive
  /\ synchronising' = TRUE
  /\ pc' = [pc EXCEPT ![t] = IF synchronising THEN "ret_early" ELSE "clrSync"]
  /\ UNCHANGED <<systemAwake, synchronised, roundState, coreState, timerState, envState>>

\* line 95: atomic_store(&synchronised, false)
ClrSync(t) ==
  /\ pc[t] = "clrSync"
  /\ ~RoundActive
  /\ synchronised' = FALSE
  /\ pc' = [pc EXCEPT ![t] = "rstEngaged"]
  /\ UNCHANGED <<systemAwake, synchronising, roundState, coreState, timerState, envState>>

\* a faulty variant: threadsEngaged is not reset before the round
RstEngagedSkipped(t) ==
  /\ pc[t] = "rstEngaged"
  /\ ~RoundActive
  /\ pc' = [pc EXCEPT ![t] = "rstTarget"]
  /\ UNCHANGED <<flags, roundState, coreState, timerState, envState>>

\* line 98: atomic_store(&threadsEngaged, 0)
RstEngaged(t) ==
  /\ pc[t] = "rstEngaged"
  /\ ~RoundActive
  /\ threadsEngaged' = 0
  /\ pc' = [pc EXCEPT ![t] = "rstTarget"]
  /\ UNCHANGED <<flags, targetTSC, coreState, timerState, envState>>

\* a faulty variant: targetTSC is not reset before the round
RstTargetSkipped(t) ==
  /\ pc[t] = "rstTarget"
  /\ ~RoundActive
  /\ pc' = [pc EXCEPT ![t] = "rendezvous"]
  /\ UNCHANGED <<flags, roundState, coreState, timerState, envState>>

\* line 99: atomic_store(&targetTSC, 0)
RstTarget(t) ==
  /\ pc[t] = "rstTarget"
  /\ ~RoundActive
  /\ targetTSC' = 0
  /\ pc' = [pc EXCEPT ![t] = "rendezvous"]
  /\ UNCHANGED <<flags, threadsEngaged, coreState, timerState, envState>>

\* line 102: mp_rendezvous_no_intrs(sync, nullptr) starts sync() on every core
Rendezvous(t) ==
  /\ pc[t] = "rendezvous"
  /\ ~RoundActive
  /\ corepc' = [c \in Cores |-> "propose"]
  /\ proposed' = [c \in Cores |-> NoVal]
  /\ written' = [c \in Cores |-> NoVal]
  /\ pc' = [pc EXCEPT ![t] = "inRound"]
  /\ UNCHANGED <<flags, roundState, tsc, timerState, envState>>

\* line 102: mp_rendezvous_no_intrs returns once every core has run sync()
RendezvousReturn(t) ==
  /\ pc[t] = "inRound"
  /\ \A c \in Cores : corepc[c] = "done"
  /\ corepc' = [c \in Cores |-> "idle"]
  /\ proposed' = [c \in Cores |-> NoVal]
  /\ written' = [c \in Cores |-> NoVal]
  /\ pc' = [pc EXCEPT ![t] = "release"]
  /\ UNCHANGED <<flags, roundState, tsc, timerState, envState>>

\* a faulty variant: the gate is not released after the round
ReleaseSkipped(t) ==
  /\ pc[t] = "release"
  /\ ~RoundActive
  /\ pc' = [pc EXCEPT ![t] = "setSync"]
  /\ UNCHANGED <<flags, roundState, coreState, timerState, envState>>

\* line 104: atomic_store(&synchronising, false)
Release(t) ==
  /\ pc[t] = "release"
  /\ ~RoundActive
  /\ synchronising' = FALSE
  /\ pc' = [pc EXCEPT ![t] = "setSync"]
  /\ UNCHANGED <<systemAwake, synchronised, roundState, coreState, timerState, envState>>

\* line 105: atomic_store(&synchronised, true)
SetSync(t) ==
  /\ pc[t] = "setSync"
  /\ ~RoundActive
  /\ synchronised' = TRUE
  /\ pc' = [pc EXCEPT ![t] = "ret_ran"]
  /\ UNCHANGED <<systemAwake, synchronising, roundState, coreState, timerState, envState>>

\* ------------------------------------------------------------------- sync
\* a faulty variant: a plain store instead of the fetch-max
FetchStore(old, cand) == cand

\* line 74: __c11_atomic_fetch_max
FetchMax(old, cand) == Max(old, cand)

\* lines 71-74: lockFreq(); fetch_max(&targetTSC, rdtsc64())
Propose(c) ==
  /\ corepc[c] = "propose"
  /\ proposed' = [proposed EXCEPT ![c] = tsc[c]]
  /\ targetTSC' = FetchMax(targetTSC, tsc[c])
  /\ corepc' = [corepc EXCEPT ![c] = "arrive"]
  /\ UNCHANGED <<flags, threadsEngaged, tsc, written, pc, timerState, envState>>

\* line 77: atomic_fetch_add(&threadsEngaged, 1)
Arrive(c) ==
  /\ corepc[c] = "arrive"
  /\ threadsEngaged' = threadsEngaged + 1
  /\ corepc' = [corepc EXCEPT ![c] = "spin"]
  /\ UNCHANGED <<flags, targetTSC, tsc, proposed, written, pc, timerState, envState>>

\* a faulty variant: the spin loop leaves as soon as enough cores have arrived
BarrierOpenAtLeast(engaged, count) == engaged >= count

\* a faulty variant: the spin loop leaves one arrival early
BarrierOpenEarly(engaged, count) == engaged >= count - 1

\* line 78: the loop runs while threadsEngaged != threadCount
BarrierOpen(engaged, count) == engaged = count

\* lines 78-80: one iteration of the spin loop that finds the barrier open
PassBarrier(c) ==
  /\ corepc[c] = "spin"
  /\ BarrierOpen(threadsEngaged, threadCount)
  /\ corepc' = [corepc EXCEPT ![c] = "write"]
  /\ UNCHANGED <<flags, roundState, tsc, proposed, written, pc, timerState, envState>>

\* line 84: wrmsr64(MSR_TSC, atomic_load(&targetTSC))
WriteTSC(c) ==
  /\ corepc[c] = "write"
  /\ tsc' = [tsc EXCEPT ![c] = targetTSC]
  /\ written' = [written EXCEPT ![c] = targetTSC]
  /\ corepc' = [corepc EXCEPT ![c] = "done"]
  /\ UNCHANGED <<flags, roundState, proposed, pc, timerState, envState>>

\* ------------------------------------------------------------ the hardware
\* A core's cycle counter advances.  sync() reads the counter at line 74 and
\* overwrites it at line 84, so an advance is modelled while the core is inside
\* sync() before its write: an advance at any other time cannot be told from one
\* at the start of the next round.
Tick(c) ==
  /\ corepc[c] \in {"propose", "arrive", "spin", "write"}
  /\ tsc[c] < MaxTSC
  /\ tsc' = [tsc EXCEPT ![c] = tsc[c] + 1]
  /\ UNCHANGED <<flags, roundState, corepc, proposed, written, pc, timerState, envState>>

\* a core that was powered down restarts its counter
TscReset(c) ==
  /\ asleep
  /\ ~RoundActive
  /\ tsc[c] # 0
  /\ tsc' = [tsc EXCEPT ![c] = 0]
  /\ UNCHANGED <<flags, roundState, corepc, proposed, written, pc, timerState, envState>>

\* ------------------------------------------------------------- timerAction
\* line 230: the timer fires and calls syncAll(true)
TimerFire ==
  /\ pc["timer"] = "idle"
  /\ ~RoundActive
  /\ timerEnabled /\ timerArmed
  /\ timerArmed' = FALSE
  /\ pc' = [pc EXCEPT !["timer"] = "chkAwake"]
  /\ UNCHANGED <<flags, roundState, coreState, timerEnabled, envState>>

\* line 231: sender->setTimeoutMS(PERIODIC_SYNC_INTERVAL)
TimerRearm ==
  /\ pc["timer"] \in Ret
  /\ ~RoundActive
  /\ timerArmed' = TRUE
  /\ pc' = [pc EXCEPT !["timer"] = "idle"]
  /\ UNCHANGED <<flags, roundState, coreState, timerEnabled, envState>>

\* ---------------------------------------------------------- wrapTracePoint
\* lines 118-120: point == kIOPMTracePointSleepCPUs; systemAwake = false
TracePointSleep ==
  /\ pc["pm"] = "idle"
  /\ ~RoundActive
  /\ hooksInstalled /\ ~asleep
  /\ asleep' = TRUE
  /\ point' = "sleep"
  /\ systemAwake' = FALSE
  /\ pc' = [pc EXCEPT !["pm"] = "slp_sync"]
  /\ UNCHANGED <<synchronised, synchronising, roundState, coreState, timerState,
                 threadCount, timerArg, hooksInstalled>>

\* line 121: synchronised = false
SleepClrSync ==
  /\ pc["pm"] = "slp_sync"
  /\ ~RoundActive
  /\ synchronised' = FALSE
  /\ pc' = [pc EXCEPT !["pm"] = "slp_stop"]
  /\ UNCHANGED <<systemAwake, synchronising, roundState, coreState, timerState, envState>>

\* a faulty variant: the sleep branch returns without calling the original routine
SleepStopTimerReturns ==
  /\ pc["pm"] = "slp_stop"
  /\ ~RoundActive
  /\ timerArmed' = FALSE
  /\ timerEnabled' = FALSE
  /\ point' = "none"
  /\ pc' = [pc EXCEPT !["pm"] = "idle"]
  /\ UNCHANGED <<flags, roundState, coreState, threadCount, timerArg, hooksInstalled, asleep>>

\* line 122: stopTimer()
SleepStopTimer ==
  /\ pc["pm"] = "slp_stop"
  /\ ~RoundActive
  /\ timerArmed' = FALSE
  /\ timerEnabled' = FALSE
  /\ pc' = [pc EXCEPT !["pm"] = "org"]
  /\ UNCHANGED <<flags, roundState, coreState, envState>>

\* lines 124-127: point == kIOPMTracePointWakePlatformActions; systemAwake = true; syncAll()
TracePointWake ==
  /\ pc["pm"] = "idle"
  /\ ~RoundActive
  /\ hooksInstalled /\ asleep
  /\ asleep' = FALSE
  /\ point' = "wake"
  /\ systemAwake' = TRUE
  /\ pc' = [pc EXCEPT !["pm"] = "chkAwake"]
  /\ UNCHANGED <<synchronised, synchronising, roundState, coreState, timerState,
                 threadCount, timerArg, hooksInstalled>>

\* line 128: startTimer()
WakeStartTimer ==
  /\ pc["pm"] \in Ret
  /\ ~RoundActive
  /\ timerEnabled' = TRUE
  /\ timerArmed' = TRUE
  /\ pc' = [pc EXCEPT !["pm"] = "org"]
  /\ UNCHANGED <<flags, roundState, coreState, envState>>

\* lines 117, 130: any other point falls through the switch
TracePointOther ==
  /\ pc["pm"] = "idle"
  /\ ~RoundActive
  /\ hooksInstalled
  /\ point' = "other"
  /\ pc' = [pc EXCEPT !["pm"] = "org"]
  /\ UNCHANGED <<flags, roundState, coreState, timerState,
                 threadCount, timerArg, hooksInstalled, asleep>>

\* line 131: orgTracePoint(that, point), and the wrapper returns
OrgTracePoint ==
  /\ pc["pm"] = "org"
  /\ ~RoundActive
  /\ point' = "none"
  /\ pc' = [pc EXCEPT !["pm"] = "idle"]
  /\ UNCHANGED <<flags, roundState, coreState, timerState,
                 threadCount, timerArg, hooksInstalled, asleep>>

\* --------------------------------------------- wrapClockGetCalendarMicrotime
\* line 136: syncAll()
ClockRead ==
  /\ pc["clock"] = "idle"
  /\ ~RoundActive
  /\ hooksInstalled
  /\ pc' = [pc EXCEPT !["clock"] = "chkAwake"]
  /\ UNCHANGED <<flags, roundState, coreState, timerState, envState>>

\* line 137: orgClockGetCalendarMicrotime(secs, microsecs), and the wrapper returns
OrgClock ==
  /\ pc["clock"] \in Ret
  /\ ~RoundActive
  /\ pc' = [pc EXCEPT !["clock"] = "idle"]
  /\ UNCHANGED <<flags, roundState, coreState, timerState, envState>>

\* ---------------------------------------------------------- wrapXcpmUrgency
\* a faulty variant: the call is forwarded whatever synchronised is
XcpmUrgencyAlwaysForward ==
  /\ pc["xcpm"] = "idle"
  /\ ~RoundActive
  /\ pc' = [pc EXCEPT !["xcpm"] = "fwd"]
  /\ UNCHANGED <<flags, roundState, coreState, timerState, envState>>

\* line 112: if (!atomic_load(&synchronised)) return;
XcpmUrgency ==
  /\ pc["xcpm"] = "idle"
  /\ ~RoundActive
  /\ pc' = [pc EXCEPT !["xcpm"] = IF synchronised THEN "fwd" ELSE "supp"]
  /\ UNCHANGED <<flags, roundState, coreState, timerState, envState>>

\* line 113: orgXcpmUrgency(urgency, rtPeriod, rtDeadline), and the wrapper returns
OrgXcpmUrgency ==
  /\ pc["xcpm"] = "fwd"
  /\ ~RoundActive
  /\ pc' = [pc EXCEPT !["xcpm"] = "idle"]
  /\ UNCHANGED <<flags, roundState, coreState, timerState, envState>>

\* line 112: the wrapper has returned without calling the original
XcpmSuppressed ==
  /\ pc["xcpm"] = "supp"
  /\ ~RoundActive
  /\ pc' = [pc EXCEPT !["xcpm"] = "idle"]
  /\ UNCHANGED <<flags, roundState, coreState, timerState, envState>>

\* ------------------------------------------------------------ processPatcher
\* lines 145-153: after syncAll() the three routines are routed, or routing fails
RouteHooks ==
  /\ pc["init"] \in Ret
  /\ ~RoundActive
  /\ \E ok \in BOOLEAN : hooksInstalled' = ok
  /\ pc' = [pc EXCEPT !["init"] = "done"]
  /\ UNCHANGED <<flags, roundState, coreState, timerState,
                 threadCount, timerArg, asleep, point>>

\* ------------------------------------------------------------ specifications
\* one step of a core inside sync()
CoreRun(c) ==
  /\ c \in Cores
  /\ \/ Propose(c)
     \/ Arrive(c)
     \/ PassBarrier(c)
     \/ WriteTSC(c)

\* one step of a thread inside syncAll()
SyncAll(t) ==
  /\ t \in Threads
  /\ \/ ChkAwake(t)
     \/ ChkSync(t)
     \/ Exchange(t)
     \/ ClrSync(t)
     \/ RstEngaged(t)
     \/ RstTarget(t)
     \/ Rendezvous(t)
     \/ RendezvousReturn(t)
     \/ Release(t)
     \/ SetSync(t)

\* the fields of the singleton after init() (lines 156-213): the thread count is
\* detected and the timer is started
InitFields ==
  /\ systemAwake = TRUE
  /\ synchronised = FALSE
  /\ synchronising = FALSE
  /\ threadsEngaged = 0
  /\ targetTSC = 0
  /\ threadCount \in 1..MaxCores
  /\ timerEnabled = TRUE
  /\ timerArmed = TRUE
  /\ asleep = FALSE
  /\ point = "none"

\* n cores, their counters drifted apart
InitCores(n) ==
  /\ tsc \in [1..n -> 0..MaxTSC]
  /\ corepc = [c \in 1..n |-> "idle"]
  /\ proposed = [c \in 1..n |-> NoVal]
  /\ written = [c \in 1..n |-> NoVal]

\* The whole program: processPatcher is about to call syncAll(), the timer is
\* armed, the hooks are not yet routed.  The machine has threadCount cores.
Init ==
  /\ InitFields
  /\ InitCores(threadCount)
  /\ pc = [t \in {"init", "timer", "pm", "clock"} |->
             IF t = "init" THEN "chkAwake" ELSE "idle"]
  /\ timerArg = [t \in {"init", "timer", "pm", "clock"} |-> t = "timer"]
  /\ hooksInstalled = FALSE

Next ==
  \/ \E t \in Threads : ChkAwake(t)
  \/ \E t \in Threads : ChkSync(t)
  \/ \E t \in Threads : Exchange(t)
  \/ \E t \in Threads : ClrSync(t)
  \/ \E t \in Threads : RstEngaged(t)
  \/ \E t \in Threads : RstTarget(t)
  \/ \E t \in Threads : Rendezvous(t)
  \/ \E t \in Threads : RendezvousReturn(t)
  \/ \E t \in Threads : Release(t)
  \/ \E t \in Threads : SetSync(t)
  \/ \E c \in Cores : Propose(c)
  \/ \E c \in Cores : Arrive(c)
  \/ \E c \in Cores : PassBarrier(c)
  \/ \E c \in Cores : WriteTSC(c)
  \/ \E c \in Cores : TscReset(c)
  \/ TimerFire
  \/ TimerRearm
  \/ TracePointSleep
  \/ SleepClrSync
  \/ SleepStopTimer
  \/ TracePointWake
  \/ WakeStartTimer
  \/ TracePointOther
  \/ OrgTracePoint
  \/ ClockRead
  \/ OrgClock
  \/ RouteHooks

Spec == Init /\ [][Next]_vars

\* The rounds themselves: the periodic timer and the trace point hook call
\* syncAll, again and again, on a machine of threadCount cores whose counters
\* advance and restart.
InitRound ==
  /\ InitFields
  /\ InitCores(threadCount)
  /\ pc = [t \in {"timer", "pm"} |-> "idle"]
  /\ timerArg = [t \in {"timer", "pm"} |-> t = "timer"]
  /\ hooksInstalled = TRUE

NextRound ==
  \/ \E t \in Threads : ChkAwake(t)
  \/ \E t \in Threads : ChkSync(t)
  \/ \E t \in Threads : Exchange(t)
  \/ \E t \in Threads : ClrSync(t)
  \/ \E t \in Threads : RstEngaged(t)
  \/ \E t \in Threads : RstTarget(t)
  \/ \E t \in Threads : Rendezvous(t)
  \/ \E t \in Threads : RendezvousReturn(t)
  \/ \E t \in Threads : Release(t)
  \/ \E t \in Threads : SetSync(t)
  \/ \E c \in Cores : Propose(c)
  \/ \E c \in Cores : Arrive(c)
  \/ \E c \in Cores : PassBarrier(c)
  \/ \E c \in Cores : WriteTSC(c)
  \/ \E c \in Cores : Tick(c)
  \/ \E c \in Cores : TscReset(c)
  \/ TimerFire
  \/ TimerRearm
  \/ TracePointSleep
  \/ SleepClrSync
  \/ SleepStopTimer
  \/ TracePointWake
  \/ WakeStartTimer
  \/ TracePointOther
  \/ OrgTracePoint

SpecRound == InitRound /\ [][NextRound]_vars

\* Concurrent callers: NumCallers threads have each just entered syncAll(timer).
InitCallers ==
  /\ InitFields
  /\ InitCores(threadCount)
  /\ pc = [t \in 1..NumCallers |-> "chkAwake"]
  /\ timerArg \in [1..NumCallers -> BOOLEAN]
  /\ hooksInstalled = FALSE

NextCallers ==
  \/ \E t \in Threads : ChkAwake(t)
  \/ \E t \in Threads : ChkSync(t)
  \/ \E t \in Threads : Exchange(t)
  \/ \E t \in Threads : ClrSync(t)
  \/ \E t \in Threads : RstEngaged(t)
  \/ \E t \in Threads : RstTarget(t)
  \/ \E t \in Threads : Rendezvous(t)
  \/ \E t \in Threads : RendezvousReturn(t)
  \/ \E t \in Threads : Release(t)
  \/ \E t \in Threads : SetSync(t)
  \/ \E c \in Cores : Propose(c)
  \/ \E c \in Cores : Arrive(c)
  \/ \E c \in Cores : PassBarrier(c)
  \/ \E c \in Cores : WriteTSC(c)

SpecCallers == InitCallers /\ [][NextCallers]_vars

\* One periodic caller on a machine whose number of cores need not be the detected
\* threadCount; the cores and the caller keep running.
InitBarrier ==
  /\ InitFields
  /\ \E n \in 1..MaxCores : InitCores(n)
  /\ pc = [t \in 1..1 |-> "chkAwake"]
  /\ timerArg = [t \in 1..1 |-> TRUE]
  /\ hooksInstalled = FALSE

SpecBarrier ==
  /\ InitBarrier
  /\ [][NextCallers]_vars
  /\ \A c \in 1..MaxCores : WF_vars(CoreRun(c))
  /\ \A t \in 1..1 : WF_vars(SyncAll(t))

\* The routed hooks at work: the timer, the trace point hook, the wall-clock hook
\* and the urgency hook run side by side on threadCount cores.
InitHooks ==
  /\ InitFields
  /\ tsc = [c \in 1..threadCount |-> 0]
  /\ corepc = [c \in 1..threadCount |-> "idle"]
  /\ proposed = [c \in 1..threadCount |-> NoVal]
  /\ written = [c \in 1..threadCount |-> NoVal]
  /\ pc = [t \in {"timer", "pm", "clock", "xcpm"} |-> "idle"]
  /\ timerArg = [t \in {"timer", "pm", "clock", "xcpm"} |-> t = "timer"]
  /\ hooksInstalled = TRUE

NextHooks ==
  \/ \E t \in Threads : ChkAwake(t)
  \/ \E t \in Threads : ChkSync(t)
  \/ \E t \in Threads : Exchange(t)
  \/ \E t \in Threads : ClrSync(t)
  \/ \E t \in Threads : RstEngaged(t)
  \/ \E t \in Threads : RstTarget(t)
  \/ \E t \in Threads : Rendezvous(t)
  \/ \E t \in Threads : RendezvousReturn(t)
  \/ \E t \in Threads : Release(t)
  \/ \E t \in Threads : SetSync(t)
  \/ \E c \in Cores : Propose(c)
  \/ \E c \in Cores : Arrive(c)
  \/ \E c \in Cores : PassBarrier(c)
  \/ \E c \in Cores : WriteTSC(c)
  \/ TimerFire
  \/ TimerRearm
  \/ TracePointSleep
  \/ SleepClrSync
  \/ SleepStopTimer
  \/ TracePointWake
  \/ WakeStartTimer
  \/ TracePointOther
  \/ OrgTracePoint
  \/ ClockRead
  \/ OrgClock
  \/ XcpmUrgency
  \/ OrgXcpmUrgency
  \/ XcpmSuppressed

SpecHooks == InitHooks /\ [][NextHooks]_vars

\* The two wrappers that call an original routine after syncAll, side by side on
\* threadCount cores: trace points and wall-clock reads.  A thread inside a
\* wrapper keeps being scheduled although rounds of the other thread stop it for
\* a while, and a core inside sync() keeps running; nothing obliges a new trace
\* point or clock read to arrive.
InitWrappers ==
  /\ InitFields
  /\ tsc = [c \in 1..threadCount |-> 0]
  /\ corepc = [c \in 1..threadCount |-> "idle"]
  /\ proposed = [c \in 1..threadCount |-> NoVal]
  /\ written = [c \in 1..threadCount |-> NoVal]
  /\ pc = [t \in {"pm", "clock"} |-> "idle"]
  /\ timerArg = [t \in {"pm", "clock"} |-> FALSE]
  /\ hooksInstalled = TRUE

NextWrappers ==
  \/ \E t \in Threads : ChkAwake(t)
  \/ \E t \in Threads : ChkSync(t)
  \/ \E t \in Threads : Exchange(t)
  \/ \E t \in Threads : ClrSync(t)
  \/ \E t \in Threads : RstEngaged(t)
  \/ \E t \in Threads : RstTarget(t)
  \/ \E t \in Threads : Rendezvous(t)
  \/ \E t \in Threads : RendezvousReturn(t)
  \/ \E t \in Threads : Release(t)
  \/ \E t \in Threads : SetSync(t)
  \/ \E c \in Cores : Propose(c)
  \/ \E c \in Cores : Arrive(c)
  \/ \E c \in Cores : PassBarrier(c)
  \/ \E c \in Cores : WriteTSC(c)
  \/ TracePointSleep
  \/ SleepClrSync
  \/ SleepStopTimer
  \/ TracePointWake
  \/ WakeStartTimer
  \/ TracePointOther
  \/ OrgTracePoint
  \/ ClockRead
  \/ OrgClock

\* the steps of a trace point call that has entered wrapTracePoint (lines 116-132)
TracePointThread ==
  \/ SyncAll("pm")
  \/ SleepClrSync
  \/ SleepStopTimer
  \/ WakeStartTimer
  \/ OrgTracePoint

\* the steps of a wall-clock read that has entered the hook (lines 134-138)
ClockThread == SyncAll("clock") \/ OrgClock

SpecWrappers ==
  /\ InitWrappers
  /\ [][NextWrappers]_vars
  /\ \A c \in 1..MaxCores : WF_vars(CoreRun(c))
  /\ SF_vars(TracePointThread)
  /\ SF_vars(ClockThread)

\* ------------------------------------------------------------------ claims
\* cores that have left the spin loop
Passed == {c \in Cores : corepc[c] \in {"write", "done"}}
\* cores that have done their fetch-max and their arrival increment
Arrived == {c \in Cores : corepc[c] \in {"spin", "write", "done"}}
Proposals == {proposed[c] : c \in Cores}
AllDone == \A c \in Cores : corepc[c] = "done"
AllPeriodic == \A t \in Threads : timerArg[t]
AllReturned == \A t \in Threads : pc[t] \in Ret
Ran == {t \in Threads : pc[t] = "ret_ran"}
\* a thread that has claimed the gate at some point
Claimed == {t \in Threads : pc[t] \in HolderPc \cup {"setSync", "ret_ran"}}

\* C1: at most one caller is between its successful exchange on the gate and its
\* release of the gate, whatever the interleaving of initialisation, the timer,
\* the trace point hook and the wall-clock hook.
C1_OneRoundAtATime == Cardinality(Holders) <= 1

\* a caller holds the gate while another caller is about to exchange on it
C1_Witness ==
  \E t \in Holders : \E u \in Threads \ {t} : pc[u] = "xchg" /\ pc[t] = "inRound"

\* C2 as stated: K periodic callers invoked together run exactly one round, and
\* the other K-1 calls return early.
C2_ExactlyOneRound ==
  (AllPeriodic /\ AllReturned) => Cardinality(Ran) = 1

\* C2 amended: K periodic callers invoked together never run two rounds at once,
\* a call returns early only when another caller has claimed the gate, and once
\* all have returned at least one round was run (between 1 and K).
C2_OneToKRounds ==
  AllPeriodic =>
    /\ Cardinality(Holders) <= 1
    /\ \A t \in Threads : pc[t] = "ret_early" => Claimed \ {t} # {}
    /\ AllReturned => Cardinality(Ran) >= 1

\* all K periodic callers have returned, one of them early
C2_Witness ==
  /\ AllPeriodic /\ AllReturned
  /\ Cardinality(Ran) = 1
  /\ Cardinality(Threads) >= 2

\* C3: in every round, once a core has left the barrier the targetTSC it reads is
\* the maximum of the values the cores proposed in this round.
C3_TargetIsMaxOfProposals ==
  Passed # {} => targetTSC = MaxOf(Proposals)

\* the round of a wake point, after a sleep that restarted some counter: a core
\* has left the barrier and the cores proposed different values
C3_Witness ==
  /\ pc["pm"] = "inRound"
  /\ Passed # {}
  /\ \E c, d \in Cores : proposed[c] = 0 /\ proposed[d] > 0

\* C4: when the rendezvous returns every core has written the same value, the
\* agreed targetTSC.
C4_AllCoresWriteTarget ==
  AllDone => \A c \in Cores : written[c] = targetTSC

\* the rendezvous is about to return on two or more cores that proposed
\* different values
C4_Witness ==
  /\ AllDone /\ Cardinality(Cores) >= 2
  /\ \E c, d \in Cores : proposed[c] < proposed[d]

\* C5: no core writes its counter before every core has executed its fetch-max
\* and its arrival increment.
C5_NoWriteBeforeAllArrived ==
  Passed # {} => Arrived = Cores

\* one core has written while another is still in the spin loop
C5_Witness ==
  \E c, d \in Cores : corepc[c] = "done" /\ corepc[d] = "spin"

\* C6: a round completes if and only if exactly threadCount cores run the action:
\* with another number of cores some core never leaves the barrier, with fewer no
\* core ever leaves it, and with exactly threadCount every core finishes.
C6_CompletesIffExactlyN ==
  /\ [](Cardinality(Cores) # threadCount => Passed # Cores)
  /\ [](Cardinality(Cores) < threadCount => Passed = {})
  /\ []((Cardinality(Cores) = threadCount /\ RoundActive) => <>AllDone)

\* a round of two or more cores, as many as threadCount, has completed
C6_Witness ==
  /\ Cardinality(Cores) = threadCount /\ threadCount >= 2
  /\ AllDone

\* C7 as stated: while a caller holds the gate, synchronised is false.
C7_InvalidWhileGateHeld == Holders # {} => ~synchronised

\* C8 as stated: once the sleep point has been handled, and until the wake point,
\* systemAwake and synchronised are false and the timer runs no round.
C8_QuietAfterSleep ==
  (asleep /\ pc["pm"] \in {"org", "idle"}) =>
    /\ ~systemAwake
    /\ ~synchronised
    /\ pc["timer"] # "inRound"

\* C9 as stated: the syncAll() of the wake point runs a round, and synchronised is
\* true when the wrapper returns.
C9_WakeRunsRound ==
  point = "wake" =>
    /\ pc["pm"] \in Ret => pc["pm"] = "ret_ran"
    /\ pc["pm"] = "org" => synchronised

\* C10: a non-periodic call whose load of synchronised finds it true returns at
\* once and changes nothing; a periodic call goes on to the gate whatever
\* synchronised is.
C10_PeriodicIgnoresValidity ==
  [][\A t \in Threads :
       (pc[t] = "chkSync" /\ pc'[t] # "chkSync") =>
         IF timerArg[t]
         THEN pc'[t] = "xchg"
         ELSE synchronised =>
                /\ pc'[t] = "ret_early"
                /\ UNCHANGED <<flags, roundState, coreState, timerState>>]_vars

\* the wall-clock hook has returned early and the timer goes on to the gate, both
\* with synchronised true
C10_Witness ==
  /\ synchronised /\ systemAwake /\ ~synchronising
  /\ pc["clock"] = "ret_early"
  /\ pc["timer"] = "xchg"

\* C11 as stated: whenever the wall-clock hook calls the original clock routine
\* (syncAll has returned to wrapClockGetCalendarMicrotime, whether it ran a round
\* or returned early), synchronised is true and no caller holds the gate.
C11_ClockReadAligned ==
  (pc["clock"] \in Ret /\ ~RoundActive) => (synchronised /\ ~synchronising /\ Holders = {})

\* the step in which wrapXcpmUrgency tests synchronised (line 112)
UrgencyCall == pc["xcpm"] = "idle" /\ pc'["xcpm"] # "idle"

\* C12: an urgency call is forwarded to the original routine exactly when
\* synchronised is true at the time of the call, and suppressed exactly when it is
\* false; a suppressed call never reaches the original routine and the call
\* changes none of the synchroniser's state.
C12_UrgencyForwardedIffAligned ==
  [][ /\ UrgencyCall =>
           /\ (pc'["xcpm"] = "fwd") <=> synchronised
           /\ (pc'["xcpm"] = "supp") <=> ~synchronised
           /\ UNCHANGED <<flags, roundState, coreState, timerState>>
      /\ (pc["xcpm"] = "supp" /\ pc'["xcpm"] # "supp") =>
           /\ pc'["xcpm"] = "idle"
           /\ UNCHANGED <<flags, roundState, coreState, timerState>>
    ]_vars

\* a call made after the sleep trace point has been suppressed
C12_Witness ==
  /\ pc["xcpm"] = "supp"
  /\ ~synchronised
  /\ asleep

\* the trace point wrapper calls the original routine only at the end of its branch:
\* sleep after stopTimer() (line 122), wake after syncAll() returned and
\* startTimer() (lines 127-128), any other point at once
OrgTracePointInOrder ==
  (pc["pm"] # "org" /\ pc'["pm"] = "org") =>
     \/ point' = "sleep" /\ pc["pm"] = "slp_stop" /\ ~systemAwake /\ ~timerEnabled'
     \/ point' = "wake" /\ pc["pm"] \in Ret /\ timerEnabled'
     \/ point' = "other" /\ pc["pm"] = "idle"

\* a wrapper call ends only by its call of the original routine, made once
OrgCalledOnce ==
  /\ (pc["pm"] # "idle" /\ pc'["pm"] = "idle") => pc["pm"] = "org"
  /\ (pc["pm"] = "org" /\ pc'["pm"] # "org") => pc'["pm"] = "idle"
  /\ (pc["clock"] # "idle" /\ pc'["clock"] = "idle") => pc["clock"] \in Ret
  /\ (pc["clock"] \in Ret /\ pc'["clock"] # pc["clock"]) => pc'["clock"] = "idle"

\* C13: every call of the trace point wrapper (sleep, wake or other point) and of
\* the wall-clock wrapper calls the original routine exactly once, after its
\* synchronisation side effect has finished, whether syncAll ran a round or
\* returned early: the call is made only at the end of the branch, it ends the
\* wrapper, and every wrapper call gets there.
C13_OriginalAlwaysCalled ==
  /\ [][OrgTracePointInOrder /\ OrgCalledOnce]_vars
  /\ (pc["pm"] # "idle") ~> (pc["pm"] = "org")
  /\ (pc["pm"] = "org") ~> (pc["pm"] = "idle")
  /\ (pc["clock"] # "idle") ~> (pc["clock"] \in Ret)
  /\ (pc["clock"] \in Ret) ~> (pc["clock"] = "idle")

\* the wall-clock hook is about to call the original routine after an early return
\* while the trace point hook is about to call it after the sleep branch
C13_Witness ==
  /\ pc["clock"] = "ret_early"
  /\ pc["pm"] = "org"
  /\ point = "sleep"

\* C14: once a caller has claimed the gate its round runs to completion: with
\* exactly threadCount cores and fair scheduling every core passes the barrier
\* and writes, the gate is then released and synchronised is then set true; the
\* gate is never held without a caller that is still inside syncAll holding it.
C14_RoundCompletes ==
  /\ [](synchronising => Holders # {})
  /\ \A t \in {"pm", "clock"} :
       /\ (pc[t] \in HolderPc \ {"release"}) ~> (pc[t] = "inRound" /\ AllDone)
       /\ (pc[t] \in HolderPc) ~> (pc[t] = "setSync" /\ ~synchronising)
       /\ (pc[t] = "setSync") ~> (pc[t] = "ret_ran" /\ synchronised)

\* a round has run to its end: every core wrote, the holder released the gate and
\* set synchronised
C14_Witness ==
  /\ pc["clock"] = "ret_ran"
  /\ synchronised /\ ~synchronising
  /\ pc["pm"] = "ret_early"

\* C15 as stated: a core is never rolled backward: the value a core writes to its
\* counter (line 84) is at least the value its counter held immediately before the
\* write, the counters having kept advancing since the read at line 74.
C15_NeverRolledBack ==
  [][\A c \in Cores :
       (corepc[c] = "write" /\ corepc'[c] = "done") => tsc'[c] >= tsc[c]]_vars

\* the rendezvous has started the round action and no core has executed line 74 yet
RoundStarting == RoundActive /\ \A c \in Cores : corepc[c] = "propose"

\* C16: in every round, the first as well as any later one, threadsEngaged and
\* targetTSC are both zero when the rendezvous starts the round action on the
\* first core.
C16_RoundStartsFromZero ==
  RoundStarting => (threadsEngaged = 0 /\ targetTSC = 0)

\* the round of a wake trace point starts after the timer has completed a round,
\* some core's counter being nonzero
C16_Witness ==
  /\ RoundStarting
  /\ pc["pm"] = "inRound"
  /\ pc["timer"] = "ret_ran"
  /\ \E c \in Cores : tsc[c] > 0

\* thread t executes one of the tests of syncAll that can end in an early return
\* (lines 89 and 90), or the exchange of line 91 that finds the gate held
EarlyReturnStep(t) ==
  \/ pc[t] \in {"chkAwake", "chkSync"} /\ pc'[t] # pc[t]
  \/ pc[t] = "xchg" /\ pc'[t] = "ret_early"

\* C17: a syncAll call that returns early leaves systemAwake, synchronised,
\* synchronising, threadsEngaged, targetTSC and every core's counter unchanged:
\* it neither claims a free gate nor releases a gate held by another caller.
C17_EarlyReturnChangesNothing ==
  [][\A t \in Threads :
       EarlyReturnStep(t) =>
         /\ UNCHANGED <<flags, roundState, tsc>>
         /\ (pc[t] = "xchg" => synchronising /\ Holders' = Holders /\ Holders # {})
    ]_vars

\* the wall-clock hook's syncAll has returned early at line 91 while the timer
\* holds the gate
C17_Witness ==
  /\ pc["clock"] = "ret_early"
  /\ pc["timer"] \in HolderPc
  /\ synchronising /\ systemAwake

\* C18 as stated: no round executes while the system is not awake: in every state
\* where the round action runs on the cores, systemAwake is true, a sleep trace
\* point between the caller's test (line 89) and its rendezvous (line 102)
\* included.
C18_NoRoundWhileNotAwake ==
  RoundActive => systemAwake

\* C19: with exactly threadCount cores taking part in each round, threadsEngaged
\* is between 0 and threadCount inclusive in every reachable state.
C19_EngagedWithinCount ==
  threadsEngaged >= 0 /\ threadsEngaged <= threadCount

\* every core of a later round has arrived: the count is at threadCount again
\* after an earlier round had left it there
C19_Witness ==
  /\ threadsEngaged = threadCount
  /\ \A c \in Cores : corepc[c] = "spin"
  /\ pc["pm"] = "inRound"
  /\ pc["timer"] = "ret_ran"

\* the round state changes only in a step of the gate holder before its
\* rendezvous or of a core inside the holder's round
RoundStateStep ==
  (threadsEngaged' # threadsEngaged \/ targetTSC' # targetTSC) =>
     /\ synchronising /\ synchronising'
     /\ Cardinality(Holders) = 1 /\ Holders' = Holders
     /\ \/ \E t \in Holders : pc[t] \in {"rstEngaged", "rstTarget"} /\ pc'[t] # pc[t]
        \/ \E t \in Holders : pc[t] = "inRound" /\
             \E c \in Cores : corepc[c] \in {"propose", "arrive"} /\ corepc'[c] # corepc[c]

\* a core writes its counter (line 84) only inside the round of the gate holder
CounterWriteStep ==
  (\E c \in Cores : corepc[c] = "write" /\ corepc'[c] = "done") =>
     /\ synchronising /\ synchronising'
     /\ Cardinality(Holders) = 1
     /\ \E t \in Holders : pc[t] = "inRound"

\* C20: a core's counter is written only while synchronising is true, and
\* threadsEngaged and targetTSC are modified only by the gate holder's reset or by
\* cores inside that holder's round.
C20_WritesOnlyInsideRound ==
  [][RoundStateStep /\ CounterWriteStep]_vars

\* a core has written its counter in the timer's round while another caller has
\* been turned away at the gate
C20_Witness ==
  /\ pc["timer"] = "inRound"
  /\ \E c \in Cores : corepc[c] = "done" /\ written[c] # NoVal
  /\ pc["clock"] = "ret_early"
  /\ threadsEngaged = threadCount

====
